---- MODULE Spec2Model ----
(***************************************************************************)
(* The four demo programs of the repository, as one state machine.         *)
(*                                                                         *)
(*   JSON flow   client  src/Client/client.go  lines  1-40                 *)
(*               server  src/unnamed/part_000                              *)
(*   echo flow   client  src/client.go                                     *)
(*               server  src/Client/client.go  lines 42-76                 *)
(*                                                                         *)
(* A run is one flow: one client process, one server process and the TCP   *)
(* connection between them.  In the echo flow either end may also be an    *)
(* arbitrary peer ("raw") instead of the repository's program, and so may  *)
(* the client of the JSON flow.                                            *)
(*                                                                         *)
(* Bytes are one-character strings.  Two more tokens stand for what is not *)
(* ASCII: Invalid, a byte that is not valid UTF-8, and Replacement, the    *)
(* rune U+FFFD.                                                            *)
(***************************************************************************)
EXTENDS Integers, Sequences, FiniteSets, TLC

VARIABLES
    flow,      \* "json" or "echo": which pair of programs this run is
    cKind,     \* "prog": the repository's client; "raw": an arbitrary peer
    sKind,     \* "prog": the repository's server; "raw": an arbitrary peer
    cpc,       \* the client's position
    spc,       \* the server's position
    ln,        \* the server's listening socket: "none", "open", "closed"
    backlog,   \* TRUE while an established connection waits to be accepted
    cconn,     \* the client's end of the connection: "none", "open", "closed"
    sconn,     \* the server's end of the connection: "none", "open", "closed"
    c2s,       \* bytes written by the client and not yet read by the server
    s2c,       \* bytes written by the server and not yet read by the client
    broken,    \* TRUE once the connection has failed (reset, network error)
    cDefers,   \* the client's deferred calls, last pushed first
    sDefers,   \* the server's deferred calls, last pushed first
    msg,       \* the client's msg: a Message (JSON flow) or bytes (echo flow)
    data,      \* JSON client: the result of json.Marshal(msg)
    sbuf,      \* JSON server: buf[:n]; echo server: the bufio.Reader's buffer
    smsg,      \* echo server: the line ReadString returned
    cbuf,      \* echo client: the bufio.Reader's buffer
    resp,      \* echo client: the string ReadString returned
    cOut,      \* what the client has printed
    sOut,      \* what the server has printed
    hist       \* history of the run, read by the properties only

vars == <<flow, cKind, sKind, cpc, spc, ln, backlog, cconn, sconn, c2s, s2c,
          broken, cDefers, sDefers, msg, data, sbuf, smsg, cbuf, resp, cOut,
          sOut, hist>>

----------------------------------------------------------------------------
(* Bounds of the model.                                                    *)

\* the longest line body the echo client is given
MaxLineLen == 2
\* the number of bytes an arbitrary peer sends at most
MaxRawBytes == 3
\* the length of the one text that does not fit the JSON server's buffer
LongTextLen == 1010

----------------------------------------------------------------------------
(* Bytes and strings.                                                      *)

Quote == "\""
Backslash == "\\"
Newline == "\n"
Invalid == "xFF"
Replacement == "U+FFFD"

Min(S) == CHOOSE x \in S : \A y \in S : x <= y

Range(s) == {s[i] : i \in 1..Len(s)}

Drop(s, n) == SubSeq(s, n + 1, Len(s))

\* buf := make([]byte, 1024)
BufCap == 1024

----------------------------------------------------------------------------
(* encoding/json, for type Message struct { User, Text string }.           *)

\* the bytes json.Marshal writes with HTML escaping on (its default)
HtmlBytes == {"<", ">", "&"}

NeedsEscape(c) == c \in {Quote, Backslash, Newline, "\r", "\t", Invalid} \cup HtmlBytes

EscapeOf(c) ==
    CASE c = Quote     -> <<Backslash, Quote>>
      [] c = Backslash -> <<Backslash, Backslash>>
      [] c = Newline   -> <<Backslash, "n">>
      [] c = "\r"      -> <<Backslash, "r">>
      [] c = "\t"      -> <<Backslash, "t">>
      [] c = "<"       -> <<Backslash, "u", "0", "0", "3", "c">>
      [] c = ">"       -> <<Backslash, "u", "0", "0", "3", "e">>
      [] c = "&"       -> <<Backslash, "u", "0", "0", "2", "6">>
      [] c = Invalid   -> <<Backslash, "u", "f", "f", "f", "d">>

\* The body of a JSON string: runs of plain bytes are copied, every other
\* byte is replaced by its escape; an invalid byte becomes the escape of
\* U+FFFD.
RECURSIVE EscapeString(_)
EscapeString(s) ==
    LET special == {j \in 1..Len(s) : NeedsEscape(s[j])}
    IN  IF special = {} THEN s
        ELSE LET j == Min(special)
             IN  SubSeq(s, 1, j - 1) \o EscapeOf(s[j]) \o EscapeString(Drop(s, j))

EncodeString(s) == <<Quote>> \o EscapeString(s) \o <<Quote>>

KeyUser == <<"u", "s", "e", "r">>
KeyText == <<"t", "e", "x", "t">>

\* json.Marshal(msg): {"user":...,"text":...}; it cannot fail for a struct
\* of two strings.
Marshal(m) ==
    [data |-> <<"{">> \o EncodeString(KeyUser) \o <<":">> \o EncodeString(m.user)
              \o <<",">> \o EncodeString(KeyText) \o <<":">> \o EncodeString(m.text)
              \o <<"}">>,
     err  |-> FALSE]

HexDigits == {"0", "1", "2", "3", "4", "5", "6", "7", "8", "9",
              "a", "b", "c", "d", "e", "f", "A", "B", "C", "D", "E", "F"}

\* the rune of a \uXXXX escape; runes outside the model's alphabet are kept
\* as the escape's four digits
RuneOf(h) ==
    CASE h = <<"0", "0", "3", "c">> -> "<"
      [] h = <<"0", "0", "3", "e">> -> ">"
      [] h = <<"0", "0", "2", "6">> -> "&"
      [] h = <<"f", "f", "f", "d">> -> Replacement
      [] OTHER -> h

SimpleEscapes == {Quote, Backslash, "/", "n", "r", "t"}

\* the escapes as if the letter after the backslash were the byte meant
UnescapeOfRaw(e) == e

UnescapeOf(e) ==
    CASE e = "n" -> Newline
      [] e = "r" -> "\r"
      [] e = "t" -> "\t"
      [] OTHER   -> e

ControlBytes == {Newline, "\r", "\t"}

ScanFail == [ok |-> FALSE, val |-> <<>>, next |-> 0]

\* The body of a JSON string from position i of b up to its closing quote:
\* ok, the decoded value and the position after the quote.
RECURSIVE ScanChars(_, _)
ScanChars(b, i) ==
    LET stops == {j \in i..Len(b) :
                    b[j] \in {Quote, Backslash, Invalid} \cup ControlBytes}
    IN  IF stops = {} THEN ScanFail
        ELSE
        LET j   == Min(stops)
            run == SubSeq(b, i, j - 1)
            Cons(c, rest) == IF rest.ok
                             THEN [rest EXCEPT !.val = run \o <<c>> \o rest.val]
                             ELSE ScanFail
        IN  CASE b[j] = Quote -> [ok |-> TRUE, val |-> run, next |-> j + 1]
              [] b[j] \in ControlBytes -> ScanFail
              [] b[j] = Invalid -> Cons(Replacement, ScanChars(b, j + 1))
              [] b[j] = Backslash ->
                   IF j + 1 > Len(b) THEN ScanFail
                   ELSE IF b[j + 1] \in SimpleEscapes
                        THEN Cons(UnescapeOf(b[j + 1]), ScanChars(b, j + 2))
                   ELSE IF /\ b[j + 1] = "u"
                           /\ j + 5 <= Len(b)
                           /\ \A k \in (j + 2)..(j + 5) : b[k] \in HexDigits
                        THEN Cons(RuneOf(SubSeq(b, j + 2, j + 5)), ScanChars(b, j + 6))
                   ELSE ScanFail

\* a JSON string at position i of b
ScanString(b, i) ==
    IF i <= Len(b) /\ b[i] = Quote THEN ScanChars(b, i + 1) ELSE ScanFail

ZeroMessage == [user |-> <<>>, text |-> <<>>]

SetField(m, key, val) ==
    CASE key = KeyUser -> [m EXCEPT !.user = val]
      [] key = KeyText -> [m EXCEPT !.text = val]
      [] OTHER -> m

\* The members of an object from position i of b, the first of them a
\* string key: `"key":"value"` then `,` and more members, or `}` and the
\* end of the input.
RECURSIVE ScanMembers(_, _, _)
ScanMembers(b, i, m) ==
    LET key == ScanString(b, i)
        val == ScanString(b, key.next + 1)
    IN  IF ~key.ok \/ key.next > Len(b) \/ b[key.next] # ":" \/ ~val.ok
          THEN [err |-> TRUE, msg |-> m]
        ELSE IF val.next > Len(b)
          THEN [err |-> TRUE, msg |-> m]
        ELSE IF b[val.next] = "}"
          THEN [err |-> val.next # Len(b), msg |-> SetField(m, key.val, val.val)]
        ELSE IF b[val.next] = ","
          THEN ScanMembers(b, val.next + 1, SetField(m, key.val, val.val))
        ELSE [err |-> TRUE, msg |-> m]

\* Unmarshal as if the start of an object were enough
UnmarshalLenient(b) ==
    [err |-> Len(b) < 1 \/ b[1] # "{", msg |-> ZeroMessage]

\* json.Unmarshal(buf[:n], &msg) for inputs without white space whose
\* members are strings: the whole input must be one object, and nothing is
\* stored unless it is.
Unmarshal(b) ==
    IF Len(b) < 2 \/ b[1] # "{"
      THEN [err |-> TRUE, msg |-> ZeroMessage]
    ELSE IF b = <<"{", "}">>
      THEN [err |-> FALSE, msg |-> ZeroMessage]
    ELSE LET r == ScanMembers(b, 2, ZeroMessage)
         IN  IF r.err THEN [err |-> TRUE, msg |-> ZeroMessage] ELSE r

----------------------------------------------------------------------------
(* The inputs of a run.                                                    *)

Alice == <<"A", "l", "i", "c", "e">>
HelloServer == <<"H", "e", "l", "l", "o", " ", "s", "e", "r", "v", "e", "r", "!">>
LongText == [i \in 1..LongTextLen |-> "a"]

Users == {Alice, <<>>, <<Quote, "b">>, <<Invalid>>}
ShortTexts == {HelloServer, <<>>, <<"a", Backslash, Newline>>, <<"<", "\t">>,
               <<"a", Invalid>>}

\* Message{User: "Alice", Text: "Hello server!"} and other values of the type
Messages ==
    [user : Users, text : ShortTexts] \cup {[user |-> Alice, text |-> LongText]}

HelloLocalServer ==
    <<"H", "e", "l", "l", "o", " ", "l", "o", "c", "a", "l", " ",
      "s", "e", "r", "v", "e", "r", "!">>

EchoBytes == {"a", "b", Newline}

Bodies == UNION {[1..n -> EchoBytes] : n \in 0..MaxLineLen}

\* msg := "Hello local server!\n" and other newline-terminated strings
EchoMsgs == {body \o <<Newline>> : body \in Bodies \cup {HelloLocalServer}}

\* the bytes an arbitrary peer sends
RawBytes == IF flow = "json" THEN {"{", "}"} ELSE {"a", Newline}

----------------------------------------------------------------------------
(* Helpers of the processes.                                               *)

HasNewline(s) == Newline \in Range(s)

\* the position of the first delimiter in s
FirstNewline(s) == Min({j \in 1..Len(s) : s[j] = Newline})

\* ReadString as if it returned the line without its delimiter
ReadStringNoDelim(buf) ==
    [line |-> SubSeq(buf, 1, FirstNewline(buf) - 1),
     rest |-> Drop(buf, FirstNewline(buf))]

\* ReadString as if what was read beyond the line were lost
ReadStringDropRest(buf) ==
    [line |-> SubSeq(buf, 1, FirstNewline(buf)), rest |-> <<>>]

\* reader.ReadString('\n') on a buffer that holds the delimiter: the line
\* it returns, the bytes up to and including the first delimiter, and
\* what stays in the buffer
ReadString(buf) ==
    [line |-> SubSeq(buf, 1, FirstNewline(buf)),
     rest |-> Drop(buf, FirstNewline(buf))]

\* the end of main as if deferred calls were not run
DeferredNotRun(defers, name, state) == state

\* a deferred Close runs when main returns or panics
Deferred(defers, name, state) ==
    IF name \in Range(defers) THEN "closed" ELSE state

\* the server's main ends in state pc (return or panic): its defers run
ServerExit(pc) ==
    /\ spc' = pc
    /\ sconn' = Deferred(sDefers, "conn", sconn)
    /\ ln' = Deferred(sDefers, "ln", ln)
    /\ sDefers' = <<>>

\* the client's main ends in state pc (return or panic): its defers run
ClientExit(pc) ==
    /\ cpc' = pc
    /\ cconn' = Deferred(cDefers, "conn", cconn)
    /\ cDefers' = <<>>

\* the server's end is gone: closed, or never accepted by a server that
\* has closed its listening socket
ServerGone == sconn = "closed" \/ (sconn = "none" /\ ln = "closed")

ClientGone == cconn = "closed"

\* one operation of a process and whether it succeeded, appended to the
\* process's history
Did(h, op, ok) == Append(h, <<op, ok>>)

Count(h, op) == Cardinality({i \in 1..Len(h) : h[i][1] = op})

Failed(h, op) == <<op, FALSE>> \in Range(h)

----------------------------------------------------------------------------
(* The initial states: one flow, the processes about to start.             *)

Init ==
    /\ \/ /\ flow = "json"
          /\ sKind = "prog"
          /\ \/ cKind = "prog" /\ msg \in Messages
             \/ cKind = "raw" /\ msg = <<>>
       \/ /\ flow = "echo"
          /\ \/ cKind = "prog" /\ sKind = "prog" /\ msg \in EchoMsgs
             \/ cKind = "prog" /\ sKind = "raw" /\ msg \in EchoMsgs
             \/ cKind = "raw" /\ sKind = "prog" /\ msg = <<>>
    /\ cpc = "dial" /\ spc = "listen"
    /\ ln = "none" /\ backlog = FALSE
    /\ cconn = "none" /\ sconn = "none"
    /\ c2s = <<>> /\ s2c = <<>> /\ broken = FALSE
    /\ cDefers = <<>> /\ sDefers = <<>>
    /\ data = <<>> /\ sbuf = <<>> /\ smsg = <<>> /\ cbuf = <<>> /\ resp = <<>>
    /\ cOut = <<>> /\ sOut = <<>>
    /\ hist = [cOps |-> <<>>, sOps |-> <<>>, cSent |-> <<>>, sSent |-> <<>>]

----------------------------------------------------------------------------
(* Steps shared by the programs.                                           *)

\* conn, err := net.Dial("tcp", host); defer conn.Close()
\* The connection is established when the server listens; anything else
\* is an error, and main panics with nothing deferred yet.
Dial(next) ==
    \/ /\ ln = "open" /\ ~backlog /\ sconn = "none"
       /\ cconn' = "open"
       /\ backlog' = TRUE
       /\ cDefers' = <<"conn">> \o cDefers
       /\ cpc' = next
       /\ hist' = [hist EXCEPT !.cOps = Did(@, "dial", TRUE)]
    \/ /\ ClientExit("panic")
       /\ hist' = [hist EXCEPT !.cOps = Did(@, "dial", FALSE)]
       /\ UNCHANGED backlog

\* ln, err := net.Listen("tcp", host); defer ln.Close(); fmt.Println(...)
Listen ==
    \/ /\ ln' = "open"
       /\ sDefers' = <<"ln">> \o sDefers
       /\ sOut' = Append(sOut, <<"Server listening on">>)
       /\ spc' = "accept"
       /\ hist' = [hist EXCEPT !.sOps = Did(@, "listen", TRUE)]
       /\ UNCHANGED sconn
    \/ /\ ServerExit("panic")
       /\ hist' = [hist EXCEPT !.sOps = Did(@, "listen", FALSE)]
       /\ UNCHANGED sOut

\* conn, err := ln.Accept(); defer conn.Close(); fmt.Println(...)
\* Accept blocks until a connection waits in the backlog.
Accept(next) ==
    \/ /\ backlog
       /\ backlog' = FALSE
       /\ sconn' = "open"
       /\ sDefers' = <<"conn">> \o sDefers
       /\ sOut' = Append(sOut, <<"Connected by">>)
       /\ spc' = next
       /\ hist' = [hist EXCEPT !.sOps = Did(@, "accept", TRUE)]
       /\ UNCHANGED ln
    \/ /\ ServerExit("panic")
       /\ hist' = [hist EXCEPT !.sOps = Did(@, "accept", FALSE)]
       /\ UNCHANGED <<backlog, sOut>>

----------------------------------------------------------------------------
(* The JSON client, src/Client/client.go lines 14-40.                      *)

JsonClientDial ==
    /\ flow = "json" /\ cKind = "prog" /\ cpc = "dial"
    /\ Dial("marshal")
    /\ UNCHANGED <<flow, cKind, sKind, spc, ln, sconn, c2s, s2c, broken, sDefers,
                   msg, data, sbuf, smsg, cbuf, resp, cOut, sOut>>

\* data, err := json.Marshal(msg); if err != nil { panic(err) }
JsonClientMarshal ==
    /\ flow = "json" /\ cKind = "prog" /\ cpc = "marshal"
    /\ LET r == Marshal(msg)
       IN  IF r.err
           THEN /\ ClientExit("panic")
                /\ UNCHANGED data
                /\ hist' = [hist EXCEPT !.cOps = Did(@, "marshal", FALSE)]
           ELSE /\ data' = r.data
                /\ cpc' = "write"
                /\ UNCHANGED <<cconn, cDefers>>
                /\ hist' = [hist EXCEPT !.cOps = Did(@, "marshal", TRUE)]
    /\ UNCHANGED <<flow, cKind, sKind, spc, ln, backlog, sconn, c2s, s2c, broken,
                   sDefers, msg, sbuf, smsg, cbuf, resp, cOut, sOut>>

\* _, err = conn.Write(data); if err != nil { panic(err) }
\* The write fails on a failed connection and may fail once the peer is
\* gone, which is how the writer learns that the connection has failed;
\* what a failed write handed over is never delivered.
JsonClientWrite ==
    /\ flow = "json" /\ cKind = "prog" /\ cpc = "write"
    /\ \/ /\ ~broken
          /\ c2s' = c2s \o data
          /\ cpc' = "print"
          /\ hist' = [hist EXCEPT !.cOps = Did(@, "write", TRUE),
                                  !.cSent = @ \o data]
          /\ UNCHANGED <<cconn, cDefers, broken>>
       \/ /\ broken \/ ServerGone
          /\ broken' = TRUE
          /\ ClientExit("panic")
          /\ hist' = [hist EXCEPT !.cOps = Did(@, "write", FALSE)]
          /\ UNCHANGED c2s
    /\ UNCHANGED <<flow, cKind, sKind, spc, ln, backlog, sconn, s2c,
                   sDefers, msg, data, sbuf, smsg, cbuf, resp, cOut, sOut>>

\* fmt.Println("JSON sent!"), and main returns
JsonClientPrint ==
    /\ flow = "json" /\ cKind = "prog" /\ cpc = "print"
    /\ cOut' = Append(cOut, <<"JSON sent!">>)
    /\ ClientExit("done")
    /\ UNCHANGED <<flow, cKind, sKind, spc, ln, backlog, sconn, c2s, s2c, broken,
                   sDefers, msg, data, sbuf, smsg, cbuf, resp, sOut, hist>>

----------------------------------------------------------------------------
(* The JSON server, src/unnamed/part_000 lines 14-42.                      *)

JsonServerListen ==
    /\ flow = "json" /\ spc = "listen"
    /\ Listen
    /\ UNCHANGED <<flow, cKind, sKind, cpc, backlog, cconn, c2s, s2c, broken,
                   cDefers, msg, data, sbuf, smsg, cbuf, resp, cOut>>

JsonServerAccept ==
    /\ flow = "json" /\ spc = "accept"
    /\ Accept("read")
    /\ UNCHANGED <<flow, cKind, sKind, cpc, cconn, c2s, s2c, broken, cDefers,
                   msg, data, sbuf, smsg, cbuf, resp, cOut>>

\* what one conn.Read(buf) may return when cap(buf) = size: the bytes that
\* have arrived so far, at least one and at most size
ReadSizes(size) == 1..(IF Len(c2s) < size THEN Len(c2s) ELSE size)

\* the read as if its error were not looked at
JsonServerReadIgnoresErr ==
    /\ flow = "json" /\ spc = "read"
    /\ \/ /\ ~broken /\ c2s # <<>>
          /\ \E n \in ReadSizes(BufCap) :
                /\ sbuf' = SubSeq(c2s, 1, n)
                /\ c2s' = Drop(c2s, n)
          /\ hist' = [hist EXCEPT !.sOps = Did(@, "read", TRUE)]
       \/ /\ broken \/ (c2s = <<>> /\ ClientGone)
          /\ hist' = [hist EXCEPT !.sOps = Did(@, "read", FALSE)]
          /\ UNCHANGED <<sbuf, c2s>>
    /\ spc' = "decode"
    /\ UNCHANGED <<flow, cKind, sKind, cpc, ln, sconn, sDefers, backlog, cconn, s2c,
                   broken, cDefers, msg, data, smsg, cbuf, resp, cOut, sOut>>

\* buf := make([]byte, 1024); n, err := conn.Read(buf)
\* Read blocks until bytes have arrived, the peer has closed (io.EOF) or
\* the connection has failed; any error panics.
JsonServerRead ==
    /\ flow = "json" /\ spc = "read"
    /\ \/ /\ ~broken /\ c2s # <<>>
          /\ \E n \in ReadSizes(BufCap) :
                /\ sbuf' = SubSeq(c2s, 1, n)
                /\ c2s' = Drop(c2s, n)
          /\ spc' = "decode"
          /\ hist' = [hist EXCEPT !.sOps = Did(@, "read", TRUE)]
          /\ UNCHANGED <<ln, sconn, sDefers>>
       \/ /\ broken \/ (c2s = <<>> /\ ClientGone)
          /\ ServerExit("panic")
          /\ hist' = [hist EXCEPT !.sOps = Did(@, "read", FALSE)]
          /\ UNCHANGED <<sbuf, c2s>>
    /\ UNCHANGED <<flow, cKind, sKind, cpc, backlog, cconn, s2c, broken, cDefers,
                   msg, data, smsg, cbuf, resp, cOut, sOut>>

\* the decoding as if it went on reading: what arrived after the one read
\* is decoded together with buf[:n]
JsonServerDecodeReadsOn ==
    /\ flow = "json" /\ spc = "decode"
    /\ LET r == Unmarshal(sbuf \o c2s)
       IN  IF r.err
           THEN /\ ServerExit("panic")
                /\ hist' = [hist EXCEPT !.sOps = Did(@, "decode", FALSE)]
                /\ UNCHANGED sOut
           ELSE /\ sOut' = Append(sOut, <<"Received JSON: ", r.msg>>)
                /\ ServerExit("done")
                /\ hist' = [hist EXCEPT !.sOps = Did(@, "decode", TRUE)]
    /\ UNCHANGED <<flow, cKind, sKind, cpc, backlog, cconn, c2s, s2c, broken,
                   cDefers, msg, data, sbuf, smsg, cbuf, resp, cOut>>

\* var msg Message; if err := json.Unmarshal(buf[:n], &msg); err != nil
\* { panic(err) }; fmt.Printf("Received JSON: %+v\n", msg), and main returns
JsonServerDecode ==
    /\ flow = "json" /\ spc = "decode"
    /\ LET r == Unmarshal(sbuf)
       IN  IF r.err
           THEN /\ ServerExit("panic")
                /\ hist' = [hist EXCEPT !.sOps = Did(@, "decode", FALSE)]
                /\ UNCHANGED sOut
           ELSE /\ sOut' = Append(sOut, <<"Received JSON: ", r.msg>>)
                /\ ServerExit("done")
                /\ hist' = [hist EXCEPT !.sOps = Did(@, "decode", TRUE)]
    /\ UNCHANGED <<flow, cKind, sKind, cpc, backlog, cconn, c2s, s2c, broken,
                   cDefers, msg, data, sbuf, smsg, cbuf, resp, cOut>>

----------------------------------------------------------------------------
(* The echo client, src/client.go lines 9-24.                              *)

EchoClientDial ==
    /\ flow = "echo" /\ cKind = "prog" /\ cpc = "dial"
    /\ Dial("write")
    /\ UNCHANGED <<flow, cKind, sKind, spc, ln, sconn, c2s, s2c, broken, sDefers,
                   msg, data, sbuf, smsg, cbuf, resp, cOut, sOut>>

\* the write as if msg were sent without its newline
EchoClientWriteNoNewline ==
    /\ flow = "echo" /\ cKind = "prog" /\ cpc = "write"
    /\ \/ /\ ~broken
          /\ c2s' = c2s \o SubSeq(msg, 1, Len(msg) - 1)
          /\ hist' = [hist EXCEPT !.cOps = Did(@, "write", TRUE),
                                  !.cSent = @ \o SubSeq(msg, 1, Len(msg) - 1)]
          /\ UNCHANGED broken
       \/ /\ broken \/ ServerGone
          /\ broken' = TRUE
          /\ hist' = [hist EXCEPT !.cOps = Did(@, "write", FALSE)]
          /\ UNCHANGED c2s
    /\ cbuf' = <<>>
    /\ cpc' = "read"
    /\ UNCHANGED <<flow, cKind, sKind, spc, ln, backlog, cconn, sconn, s2c,
                   cDefers, sDefers, msg, data, sbuf, smsg, resp, cOut, sOut>>

\* conn.Write([]byte(msg)); reader := bufio.NewReader(conn)
\* The result of the write is not looked at.
EchoClientWrite ==
    /\ flow = "echo" /\ cKind = "prog" /\ cpc = "write"
    /\ \/ /\ ~broken
          /\ c2s' = c2s \o msg
          /\ hist' = [hist EXCEPT !.cOps = Did(@, "write", TRUE),
                                  !.cSent = @ \o msg]
          /\ UNCHANGED broken
       \/ /\ broken \/ ServerGone
          /\ broken' = TRUE
          /\ hist' = [hist EXCEPT !.cOps = Did(@, "write", FALSE)]
          /\ UNCHANGED c2s
    /\ cbuf' = <<>>
    /\ cpc' = "read"
    /\ UNCHANGED <<flow, cKind, sKind, spc, ln, backlog, cconn, sconn, s2c,
                   cDefers, sDefers, msg, data, sbuf, smsg, resp, cOut, sOut>>

\* reader.ReadString('\n'), no delimiter in the buffer: the reader reads
\* from the connection what has arrived, and blocks while nothing has
EchoClientFill ==
    /\ flow = "echo" /\ cKind = "prog" /\ cpc = "read"
    /\ ~HasNewline(cbuf)
    /\ ~broken /\ s2c # <<>>
    /\ \E n \in 1..Len(s2c) :
          /\ cbuf' = cbuf \o SubSeq(s2c, 1, n)
          /\ s2c' = Drop(s2c, n)
    /\ UNCHANGED <<flow, cKind, sKind, cpc, spc, ln, backlog, cconn, sconn, c2s,
                   broken, cDefers, sDefers, msg, data, sbuf, smsg, resp, cOut,
                   sOut, hist>>

\* resp, _ := reader.ReadString('\n'), the delimiter is in the buffer
EchoClientReadLine ==
    /\ flow = "echo" /\ cKind = "prog" /\ cpc = "read"
    /\ HasNewline(cbuf)
    /\ resp' = ReadString(cbuf).line
    /\ cbuf' = ReadString(cbuf).rest
    /\ cpc' = "print"
    /\ hist' = [hist EXCEPT !.cOps = Did(@, "readline", TRUE)]
    /\ UNCHANGED <<flow, cKind, sKind, spc, ln, backlog, cconn, sconn, c2s, s2c,
                   broken, cDefers, sDefers, msg, data, sbuf, smsg, cOut, sOut>>

\* the failed read as if it returned the empty string
EchoClientReadErrEmpty ==
    /\ flow = "echo" /\ cKind = "prog" /\ cpc = "read"
    /\ ~HasNewline(cbuf)
    /\ broken \/ (s2c = <<>> /\ ServerGone)
    /\ resp' = <<>>
    /\ cbuf' = <<>>
    /\ cpc' = "print"
    /\ hist' = [hist EXCEPT !.cOps = Did(@, "readline", FALSE)]
    /\ UNCHANGED <<flow, cKind, sKind, spc, ln, backlog, cconn, sconn, c2s, s2c,
                   broken, cDefers, sDefers, msg, data, sbuf, smsg, cOut, sOut>>

\* the read as if the connection had a read deadline: it may fail while the
\* peer is there and silent
EchoClientReadTimesOut ==
    /\ flow = "echo" /\ cKind = "prog" /\ cpc = "read"
    /\ ~HasNewline(cbuf)
    /\ resp' = cbuf
    /\ cbuf' = <<>>
    /\ cpc' = "print"
    /\ hist' = [hist EXCEPT !.cOps = Did(@, "readline", FALSE)]
    /\ UNCHANGED <<flow, cKind, sKind, spc, ln, backlog, cconn, sconn, c2s, s2c,
                   broken, cDefers, sDefers, msg, data, sbuf, smsg, cOut, sOut>>

\* resp, _ := reader.ReadString('\n'), the read from the connection fails
\* (io.EOF or an error) before a delimiter: ReadString returns the bytes
\* read before the error, and the error is dropped
EchoClientReadErr ==
    /\ flow = "echo" /\ cKind = "prog" /\ cpc = "read"
    /\ ~HasNewline(cbuf)
    /\ broken \/ (s2c = <<>> /\ ServerGone)
    /\ resp' = cbuf
    /\ cbuf' = <<>>
    /\ cpc' = "print"
    /\ hist' = [hist EXCEPT !.cOps = Did(@, "readline", FALSE)]
    /\ UNCHANGED <<flow, cKind, sKind, spc, ln, backlog, cconn, sconn, c2s, s2c,
                   broken, cDefers, sDefers, msg, data, sbuf, smsg, cOut, sOut>>

\* fmt.Printf("Received: %s", resp), and main returns
EchoClientPrint ==
    /\ flow = "echo" /\ cKind = "prog" /\ cpc = "print"
    /\ cOut' = Append(cOut, <<"Received: ", resp>>)
    /\ ClientExit("done")
    /\ UNCHANGED <<flow, cKind, sKind, spc, ln, backlog, sconn, c2s, s2c, broken,
                   sDefers, msg, data, sbuf, smsg, cbuf, resp, sOut, hist>>

----------------------------------------------------------------------------
(* The echo server, src/Client/client.go lines 50-76.                      *)

EchoServerListen ==
    /\ flow = "echo" /\ sKind = "prog" /\ spc = "listen"
    /\ Listen
    /\ UNCHANGED <<flow, cKind, sKind, cpc, backlog, cconn, c2s, s2c, broken,
                   cDefers, msg, data, sbuf, smsg, cbuf, resp, cOut>>

\* ... reader := bufio.NewReader(conn)
EchoServerAccept ==
    /\ flow = "echo" /\ sKind = "prog" /\ spc = "accept"
    /\ Accept("read")
    /\ UNCHANGED <<flow, cKind, sKind, cpc, cconn, c2s, s2c, broken, cDefers,
                   msg, data, sbuf, smsg, cbuf, resp, cOut>>

\* reader.ReadString('\n'), no delimiter in the buffer: the reader reads
\* from the connection what has arrived, and blocks while nothing has
EchoServerFill ==
    /\ flow = "echo" /\ sKind = "prog" /\ spc = "read"
    /\ ~HasNewline(sbuf)
    /\ ~broken /\ c2s # <<>>
    /\ \E n \in 1..Len(c2s) :
          /\ sbuf' = sbuf \o SubSeq(c2s, 1, n)
          /\ c2s' = Drop(c2s, n)
    /\ UNCHANGED <<flow, cKind, sKind, cpc, spc, ln, backlog, cconn, sconn, s2c,
                   broken, cDefers, sDefers, msg, data, smsg, cbuf, resp, cOut,
                   sOut, hist>>

\* msg, err := reader.ReadString('\n') with err == nil;
\* fmt.Printf("Received: %s", msg)
EchoServerReadLine ==
    /\ flow = "echo" /\ sKind = "prog" /\ spc = "read"
    /\ HasNewline(sbuf)
    /\ smsg' = ReadString(sbuf).line
    /\ sbuf' = ReadString(sbuf).rest
    /\ sOut' = Append(sOut, <<"Received: ", ReadString(sbuf).line>>)
    /\ spc' = "echo"
    /\ hist' = [hist EXCEPT !.sOps = Did(@, "readline", TRUE)]
    /\ UNCHANGED <<flow, cKind, sKind, cpc, ln, backlog, cconn, sconn, c2s, s2c,
                   broken, cDefers, sDefers, msg, data, cbuf, resp, cOut>>

\* the read error as if the server went back to accept the next client
EchoServerReadErrReaccept ==
    /\ flow = "echo" /\ sKind = "prog" /\ spc = "read"
    /\ ~HasNewline(sbuf)
    /\ broken \/ (c2s = <<>> /\ ClientGone)
    /\ sbuf' = <<>>
    /\ sconn' = "closed"
    /\ sDefers' = <<"ln">>
    /\ spc' = "accept"
    /\ hist' = [hist EXCEPT !.sOps = Did(@, "readline", FALSE)]
    /\ UNCHANGED <<flow, cKind, sKind, cpc, ln, backlog, cconn, c2s, s2c, broken,
                   cDefers, msg, data, smsg, cbuf, resp, cOut, sOut>>

\* the read error as if it were fatal, as in the JSON server
EchoServerReadErrPanics ==
    /\ flow = "echo" /\ sKind = "prog" /\ spc = "read"
    /\ ~HasNewline(sbuf)
    /\ broken \/ (c2s = <<>> /\ ClientGone)
    /\ sbuf' = <<>>
    /\ ServerExit("panic")
    /\ hist' = [hist EXCEPT !.sOps = Did(@, "readline", FALSE)]
    /\ UNCHANGED <<flow, cKind, sKind, cpc, backlog, cconn, c2s, s2c, broken,
                   cDefers, msg, data, smsg, cbuf, resp, cOut, sOut>>

\* msg, err := reader.ReadString('\n') with err != nil (io.EOF or an
\* error before a delimiter): break, and main returns; the bytes read
\* before the error are dropped
EchoServerReadErr ==
    /\ flow = "echo" /\ sKind = "prog" /\ spc = "read"
    /\ ~HasNewline(sbuf)
    /\ broken \/ (c2s = <<>> /\ ClientGone)
    /\ sbuf' = <<>>
    /\ ServerExit("done")
    /\ hist' = [hist EXCEPT !.sOps = Did(@, "readline", FALSE)]
    /\ UNCHANGED <<flow, cKind, sKind, cpc, backlog, cconn, c2s, s2c, broken,
                   cDefers, msg, data, smsg, cbuf, resp, cOut, sOut>>

\* the echo as if a failed write ended the loop
EchoServerEchoChecked ==
    /\ flow = "echo" /\ sKind = "prog" /\ spc = "echo"
    /\ \/ /\ ~broken
          /\ s2c' = s2c \o smsg
          /\ hist' = [hist EXCEPT !.sOps = Did(@, "write", TRUE),
                                  !.sSent = @ \o smsg]
          /\ spc' = "read"
          /\ UNCHANGED <<broken, ln, sconn, sDefers>>
       \/ /\ broken \/ ClientGone
          /\ broken' = TRUE
          /\ hist' = [hist EXCEPT !.sOps = Did(@, "write", FALSE)]
          /\ ServerExit("done")
          /\ UNCHANGED s2c
    /\ UNCHANGED <<flow, cKind, sKind, cpc, backlog, cconn, c2s,
                   cDefers, msg, data, sbuf, smsg, cbuf, resp, cOut, sOut>>

\* the echo as if the line were written twice
EchoServerEchoTwice ==
    /\ flow = "echo" /\ sKind = "prog" /\ spc = "echo"
    /\ \/ /\ ~broken
          /\ s2c' = s2c \o smsg \o smsg
          /\ hist' = [hist EXCEPT !.sOps = Did(@, "write", TRUE),
                                  !.sSent = @ \o smsg \o smsg]
          /\ UNCHANGED broken
       \/ /\ broken \/ ClientGone
          /\ broken' = TRUE
          /\ hist' = [hist EXCEPT !.sOps = Did(@, "write", FALSE)]
          /\ UNCHANGED s2c
    /\ spc' = "read"
    /\ UNCHANGED <<flow, cKind, sKind, cpc, ln, backlog, cconn, sconn, c2s,
                   cDefers, sDefers, msg, data, sbuf, smsg, cbuf, resp, cOut, sOut>>

\* conn.Write([]byte(msg)) // Echo back
\* The result of the write is not looked at; the loop goes on.  A write
\* fails on a failed connection and may fail once the peer is gone, after
\* which the connection has failed.
EchoServerEcho ==
    /\ flow = "echo" /\ sKind = "prog" /\ spc = "echo"
    /\ \/ /\ ~broken
          /\ s2c' = s2c \o smsg
          /\ hist' = [hist EXCEPT !.sOps = Did(@, "write", TRUE),
                                  !.sSent = @ \o smsg]
          /\ UNCHANGED broken
       \/ /\ broken \/ ClientGone
          /\ broken' = TRUE
          /\ hist' = [hist EXCEPT !.sOps = Did(@, "write", FALSE)]
          /\ UNCHANGED s2c
    /\ spc' = "read"
    /\ UNCHANGED <<flow, cKind, sKind, cpc, ln, backlog, cconn, sconn, c2s,
                   cDefers, sDefers, msg, data, sbuf, smsg, cbuf, resp, cOut, sOut>>

----------------------------------------------------------------------------
(* The environment: an arbitrary client of either server, an arbitrary     *)
(* server of the echo client, and the failure of the connection.           *)

\* an arbitrary client connects to the listening server
RawClientDial ==
    /\ cKind = "raw" /\ cpc = "dial"
    /\ ln = "open" /\ ~backlog /\ sconn = "none"
    /\ cconn' = "open"
    /\ backlog' = TRUE
    /\ cpc' = "send"
    /\ UNCHANGED <<flow, cKind, sKind, spc, ln, sconn, c2s, s2c, broken, cDefers,
                   sDefers, msg, data, sbuf, smsg, cbuf, resp, cOut, sOut, hist>>

\* it sends one more byte
RawClientSend ==
    /\ cKind = "raw" /\ cpc = "send"
    /\ ~broken
    /\ Len(hist.cSent) < MaxRawBytes
    /\ \E b \in RawBytes :
          /\ c2s' = Append(c2s, b)
          /\ hist' = [hist EXCEPT !.cSent = Append(@, b)]
    /\ UNCHANGED <<flow, cKind, sKind, cpc, spc, ln, backlog, cconn, sconn, s2c,
                   broken, cDefers, sDefers, msg, data, sbuf, smsg, cbuf, resp,
                   cOut, sOut>>

\* it closes its end
RawClientClose ==
    /\ cKind = "raw" /\ cpc = "send"
    /\ cconn' = "closed"
    /\ cpc' = "done"
    /\ UNCHANGED <<flow, cKind, sKind, spc, ln, backlog, sconn, c2s, s2c, broken,
                   cDefers, sDefers, msg, data, sbuf, smsg, cbuf, resp, cOut, sOut,
                   hist>>

\* an arbitrary server listens
RawServerListen ==
    /\ flow = "echo" /\ sKind = "raw" /\ spc = "listen"
    /\ ln' = "open"
    /\ spc' = "accept"
    /\ UNCHANGED <<flow, cKind, sKind, cpc, backlog, cconn, sconn, c2s, s2c, broken,
                   cDefers, sDefers, msg, data, sbuf, smsg, cbuf, resp, cOut, sOut,
                   hist>>

\* it accepts the connection
RawServerAccept ==
    /\ flow = "echo" /\ sKind = "raw" /\ spc = "accept"
    /\ backlog
    /\ backlog' = FALSE
    /\ sconn' = "open"
    /\ spc' = "send"
    /\ UNCHANGED <<flow, cKind, sKind, cpc, ln, cconn, c2s, s2c, broken, cDefers,
                   sDefers, msg, data, sbuf, smsg, cbuf, resp, cOut, sOut, hist>>

\* it sends one more byte
RawServerSend ==
    /\ flow = "echo" /\ sKind = "raw" /\ spc = "send"
    /\ ~broken
    /\ Len(hist.sSent) < MaxRawBytes
    /\ \E b \in RawBytes :
          /\ s2c' = Append(s2c, b)
          /\ hist' = [hist EXCEPT !.sSent = Append(@, b)]
    /\ UNCHANGED <<flow, cKind, sKind, cpc, spc, ln, backlog, cconn, sconn, c2s,
                   broken, cDefers, sDefers, msg, data, sbuf, smsg, cbuf, resp,
                   cOut, sOut>>

\* it closes the connection and stops listening
RawServerClose ==
    /\ flow = "echo" /\ sKind = "raw" /\ spc = "send"
    /\ sconn' = "closed"
    /\ ln' = "closed"
    /\ spc' = "done"
    /\ UNCHANGED <<flow, cKind, sKind, cpc, backlog, cconn, c2s, s2c, broken,
                   cDefers, sDefers, msg, data, sbuf, smsg, cbuf, resp, cOut, sOut,
                   hist>>

\* the established connection fails: from now on every read and write on
\* it returns an error
Break ==
    /\ ~broken
    /\ cconn = "open" \/ sconn = "open"
    /\ broken' = TRUE
    /\ UNCHANGED <<flow, cKind, sKind, cpc, spc, ln, backlog, cconn, sconn, c2s,
                   s2c, cDefers, sDefers, msg, data, sbuf, smsg, cbuf, resp, cOut,
                   sOut, hist>>

----------------------------------------------------------------------------

Next ==
    \/ JsonClientDial \/ JsonClientMarshal \/ JsonClientWrite \/ JsonClientPrint
    \/ JsonServerListen \/ JsonServerAccept \/ JsonServerRead \/ JsonServerDecode
    \/ EchoClientDial \/ EchoClientWrite \/ EchoClientFill \/ EchoClientReadLine
    \/ EchoClientReadErr \/ EchoClientPrint
    \/ EchoServerListen \/ EchoServerAccept \/ EchoServerFill \/ EchoServerReadLine
    \/ EchoServerReadErr \/ EchoServerEcho
    \/ RawClientDial \/ RawClientSend \/ RawClientClose
    \/ RawServerListen \/ RawServerAccept \/ RawServerSend \/ RawServerClose
    \/ Break

Spec == Init /\ [][Next]_vars

----------------------------------------------------------------------------
(* The echo flow over a reliable connection, with both programs scheduled. *)
(* The connection does not fail by itself, and the calls that take a       *)
(* resource of the host (the port, a descriptor) get it: Listen and Accept *)
(* do not fail, and Dial waits for the listener instead of being refused.  *)
(* A write may still fail once the peer has closed.  Each program, being a *)
(* process of its own, takes its next step when it can; an arbitrary peer  *)
(* is under no such obligation.                                            *)

EchoInit == Init /\ flow = "echo"

\* the step A, and the call made in it is not refused a resource
Available(A) ==
    /\ A
    /\ ~Failed(hist'.cOps, "dial")
    /\ ~Failed(hist'.sOps, "listen")
    /\ ~Failed(hist'.sOps, "accept")

EchoClientStep ==
    \/ Available(EchoClientDial) \/ EchoClientWrite \/ EchoClientFill
    \/ EchoClientReadLine \/ EchoClientReadErr \/ EchoClientPrint

EchoServerStep ==
    \/ Available(EchoServerListen) \/ Available(EchoServerAccept)
    \/ EchoServerFill \/ EchoServerReadLine \/ EchoServerReadErr
    \/ EchoServerEcho

PeerStep ==
    \/ Available(RawClientDial) \/ RawClientSend \/ RawClientClose
    \/ Available(RawServerListen) \/ Available(RawServerAccept)
    \/ RawServerSend \/ RawServerClose

EchoNext == EchoClientStep \/ EchoServerStep \/ PeerStep

EchoFairSpec ==
    /\ EchoInit /\ [][EchoNext]_vars
    /\ WF_vars(EchoClientStep) /\ WF_vars(EchoServerStep)

----------------------------------------------------------------------------
(* Vocabulary of the properties.                                           *)

IsPrefix(p, s) == Len(p) <= Len(s) /\ SubSeq(s, 1, Len(p)) = p

Last(s) == s[Len(s)]

Newlines(s) == {j \in 1..Len(s) : s[j] = Newline}

\* the complete lines of s: s up to and including its last newline
CompleteLines(s) ==
    IF Newlines(s) = {} THEN <<>>
    ELSE SubSeq(s, 1, CHOOSE j \in Newlines(s) : \A k \in Newlines(s) : k <= j)

\* m is one line: its only newline is its last byte
OneLine(m) == Newlines(m) = {Len(m)}

EchoPair == flow = "echo" /\ cKind = "prog" /\ sKind = "prog"
EchoServer == flow = "echo" /\ sKind = "prog"
EchoClient == flow = "echo" /\ cKind = "prog"
JsonPair == flow = "json" /\ cKind = "prog" /\ sKind = "prog"
JsonServer == flow = "json" /\ sKind = "prog"

\* no operation other than a line read has returned an error, and the
\* connection has not failed
NoIOError ==
    /\ ~broken
    /\ \A op \in {"dial", "listen", "accept", "write"} :
          ~Failed(hist.cOps, op) /\ ~Failed(hist.sOps, op)

\* the echo server waits for more input with nothing left to read, or has
\* returned
EchoServerQuiet ==
    \/ spc = "read" /\ ~HasNewline(sbuf) /\ c2s = <<>>
    \/ spc = "done"

\* s holds no byte that json.Marshal would replace
ValidUTF8(s) == Invalid \notin Range(s)

\* the server's read returned the whole encoding, which fits the buffer,
\* and the server has gone on to decode it
JsonDelivered ==
    /\ JsonPair
    /\ <<"read", TRUE>> \in Range(hist.sOps)
    /\ sbuf = data /\ Len(data) <= BufCap
    /\ spc # "decode"

JsonPrinted(m) == spc = "done" /\ Last(sOut) = <<"Received JSON: ", m>>

\* the echo client's ReadString has returned an error
EchoClientReadFailed == EchoClient /\ Failed(hist.cOps, "readline")

\* the echo server's i-th operation was a read or a write that failed
IOFailedAt(i) ==
    hist.sOps[i] \in {<<"readline", FALSE>>, <<"write", FALSE>>}

\* the JSON server has printed no Message
NoJsonPrinted == \A i \in 1..Len(sOut) : sOut[i][1] # "Received JSON: "

\* the JSON server's read returned a proper prefix of the encoding
JsonPartial ==
    /\ JsonPair
    /\ <<"read", TRUE>> \in Range(hist.sOps)
    /\ Len(sbuf) < Len(data)

----------------------------------------------------------------------------
(* C1  Echo round trip.  When the echo client has sent the one line        *)
(* L + "\n" to the echo server and no I/O error has occurred, everything   *)
(* the server has written back is that line, and the response the client   *)
(* has read is exactly L + "\n", trailing newline included.                *)

C1_EchoRoundTrip ==
    (EchoPair /\ NoIOError /\ OneLine(msg)) =>
        /\ hist.sSent \in {<<>>, msg}
        /\ cpc \in {"print", "done"} => resp = msg
        /\ cpc = "done" => cOut = <<(<<"Received: ", msg>>)>>

C1_Witness ==
    /\ EchoPair /\ NoIOError
    /\ msg = HelloLocalServer \o <<Newline>>
    /\ cpc = "done" /\ resp = msg

----------------------------------------------------------------------------
(* C2  Echo server loop continuation.  Whenever the echo server has taken  *)
(* in everything its peer has sent and no write or connection has failed,  *)
(* it has echoed every complete line received so far, the second and the   *)
(* later ones too, one line read per line sent, all on the one connection  *)
(* it accepted: accept has returned exactly once.                          *)

C2_EchoLoopContinues ==
    (/\ EchoServer /\ NoIOError /\ EchoServerQuiet
     /\ <<"accept", TRUE>> \in Range(hist.sOps)) =>
        /\ hist.sSent = CompleteLines(hist.cSent)
        /\ Cardinality({i \in 1..Len(hist.sOps) : hist.sOps[i] = <<"readline", TRUE>>})
              = Cardinality(Newlines(hist.cSent))
        /\ Count(hist.sOps, "accept") = 1

C2_Witness ==
    /\ EchoServer /\ cKind = "raw" /\ NoIOError
    /\ spc = "read" /\ EchoServerQuiet
    /\ Cardinality(Newlines(hist.sSent)) >= 2
    /\ hist.sSent = hist.cSent
    /\ Count(hist.sOps, "accept") = 1

----------------------------------------------------------------------------
(* C3  Echo server on peer close without a final newline.  Once the echo   *)
(* server's line read has failed, the server has returned normally (it did *)
(* not panic), its connection and its listening socket are closed, and     *)
(* what it has echoed and printed are complete received lines only: bytes  *)
(* not terminated by a newline are never echoed.                           *)

C3_PeerCloseEndsLoop ==
    (EchoServer /\ Failed(hist.sOps, "readline")) =>
        /\ spc = "done"
        /\ sconn = "closed" /\ ln = "closed"
        /\ IsPrefix(hist.sSent, CompleteLines(hist.cSent))
        /\ \A i \in 1..Len(sOut) :
              sOut[i][1] = "Received: " => Last(sOut[i][2]) = Newline

C3_Witness ==
    /\ EchoServer /\ cKind = "raw" /\ ~broken
    /\ spc = "done" /\ sconn = "closed"
    /\ hist.cSent = <<Newline, "a", "a">>
    /\ hist.sSent = <<Newline>>

----------------------------------------------------------------------------
(* C4  JSON round trip.  As claimed, for every Message: when the server's  *)
(* one read has returned all of the client's encoded bytes, at most 1024   *)
(* of them, the server decodes them and prints a Message with the user and *)
(* text the client encoded.                                                *)

----------------------------------------------------------------------------
(* C5  Single accept.  In every run of either server accept returns at     *)
(* most once, and exactly once in every run that got to listen and has     *)
(* ended; once a connection is accepted the server is never listening or   *)
(* accepting again; the connection is open only while the server serves    *)
(* it, and when it is closed the server process has ended and listens no   *)
(* more.                                                                   *)

C5_SingleAccept ==
    sKind = "prog" =>
        /\ Count(hist.sOps, "accept") <= 1
        /\ <<"accept", TRUE>> \in Range(hist.sOps) => spc \notin {"listen", "accept"}
        /\ (spc \in {"done", "panic"} /\ <<"listen", TRUE>> \in Range(hist.sOps))
              => Count(hist.sOps, "accept") = 1
        /\ sconn = "open" => spc \in {"read", "decode", "echo"}
        /\ sconn = "closed" => spc \in {"done", "panic"} /\ ln = "closed"

C5_Witness ==
    /\ EchoServer /\ spc = "done" /\ sconn = "closed"
    /\ Cardinality(Newlines(hist.sSent)) >= 2
    /\ Count(hist.sOps, "accept") = 1

----------------------------------------------------------------------------
(* C6  Deterministic release.  When a program has ended, by returning or   *)
(* by a panic, every socket it had acquired is closed: the listening       *)
(* socket, the accepted connection, the dialed connection.                 *)

C6_DeterministicRelease ==
    /\ (sKind = "prog" /\ spc \in {"done", "panic"}) =>
          /\ <<"listen", TRUE>> \in Range(hist.sOps) => ln = "closed"
          /\ <<"accept", TRUE>> \in Range(hist.sOps) => sconn = "closed"
          /\ ln # "open" /\ sconn # "open"
    /\ (cKind = "prog" /\ cpc \in {"done", "panic"}) =>
          /\ <<"dial", TRUE>> \in Range(hist.cOps) => cconn = "closed"
          /\ cconn # "open"

C6_Witness ==
    /\ JsonServer /\ spc = "panic"
    /\ Failed(hist.sOps, "decode")
    /\ ln = "closed" /\ sconn = "closed"

----------------------------------------------------------------------------
(* C7  Echo client read failure.  As claimed: whenever the echo client's   *)
(* read of the response line has failed, the response it holds and prints  *)
(* is empty, and the error is not surfaced.                                *)

C7_Original ==
    EchoClientReadFailed =>
        /\ cpc \in {"print", "done"}
        /\ resp = <<>>

(* C7, amended: whenever the read has failed, the error is not surfaced    *)
(* (the client goes on to print and returns), and the response it holds    *)
(* and prints is the bytes that had arrived before the failure, none of    *)
(* them a newline: empty only when nothing had arrived.                    *)

C7_ReadFailureKeepsPartial ==
    EchoClientReadFailed =>
        /\ cpc \in {"print", "done"}
        /\ ~HasNewline(resp)
        /\ resp \o s2c = hist.sSent
        /\ cpc = "done" => cOut = <<(<<"Received: ", resp>>)>>

C7_Witness ==
    /\ EchoClientReadFailed /\ ~broken
    /\ cpc = "done"
    /\ resp # <<>>

----------------------------------------------------------------------------
(* C8  Echo server I/O errors.  As claimed: after a read or a write of the *)
(* echo server has failed, the server reads no further line and attempts   *)
(* no further echo.                                                        *)

C8_Original ==
    EchoServer =>
        \A i \in 1..Len(hist.sOps) : \A j \in (i + 1)..Len(hist.sOps) :
            IOFailedAt(i) =>
                hist.sOps[j] # <<"readline", TRUE>> /\ hist.sOps[j][1] # "write"

(* C8, amended: a failed read ends the loop, it is the server's last       *)
(* operation and the server returns; nothing else ends the loop.  A failed *)
(* write is not looked at: like a successful one it is followed by the     *)
(* next read, so lines already read from the connection are still returned *)
(* and their echo attempted.                                               *)

C8_ReadErrorEndsLoop ==
    EchoServer =>
        /\ \A i \in 1..Len(hist.sOps) :
              hist.sOps[i] = <<"readline", FALSE>> => i = Len(hist.sOps) /\ spc = "done"
        /\ spc = "done" => Last(hist.sOps) = <<"readline", FALSE>>
        /\ \A i \in 1..Len(hist.sOps) :
              hist.sOps[i][1] = "write" =>
                  IF i = Len(hist.sOps) THEN spc = "read"
                  ELSE hist.sOps[i + 1][1] = "readline"

C8_Witness ==
    /\ EchoServer
    /\ \E i \in 1..Len(hist.sOps) : \E j \in (i + 1)..Len(hist.sOps) :
          /\ hist.sOps[i] = <<"write", FALSE>>
          /\ hist.sOps[j] = <<"readline", TRUE>>
          /\ j < Len(hist.sOps) /\ hist.sOps[j + 1][1] = "write"

----------------------------------------------------------------------------
(* C9  JSON flow failures are fatal.  In the JSON server a failed listen,  *)
(* accept, read (end of stream included) or decode is the last thing the   *)
(* server does: it has panicked and has printed no Message.  In the JSON   *)
(* client a failed dial, encode or write is the last thing the client      *)
(* does: it has panicked and has not printed the success message.  Neither *)
(* program performs any of these operations twice.                         *)

C9_JsonFailuresFatal ==
    /\ JsonServer =>
          \A op \in {"listen", "accept", "read", "decode"} :
              /\ Count(hist.sOps, op) <= 1
              /\ Failed(hist.sOps, op) =>
                    /\ spc = "panic"
                    /\ Last(hist.sOps) = <<op, FALSE>>
                    /\ NoJsonPrinted
    /\ (flow = "json" /\ cKind = "prog") =>
          \A op \in {"dial", "marshal", "write"} :
              /\ Count(hist.cOps, op) <= 1
              /\ Failed(hist.cOps, op) =>
                    /\ cpc = "panic"
                    /\ Last(hist.cOps) = <<op, FALSE>>
                    /\ <<"JSON sent!">> \notin Range(cOut)

C9_Witness ==
    /\ JsonServer /\ ~broken
    /\ hist.cSent = <<>> /\ cconn = "closed"
    /\ Failed(hist.sOps, "read")
    /\ spc = "panic"

----------------------------------------------------------------------------
(* C10  JSON server partial payload.  Whenever the JSON server's read has  *)
(* returned a proper prefix of the client's encoded Message, because the   *)
(* encoding is longer than the buffer or because only part of it had       *)
(* arrived, the server fails to decode it and panics without printing a    *)
(* Message; it has read once, at most the buffer's capacity, and the rest  *)
(* of the encoding stays unread.                                           *)

C10_PartialPayloadFails ==
    /\ JsonPartial =>
          /\ spc \in {"decode", "panic"}
          /\ spc = "panic" => Last(hist.sOps) = <<"decode", FALSE>>
          /\ NoJsonPrinted
          /\ Count(hist.sOps, "read") = 1
          /\ sbuf \o c2s = data
    /\ (JsonPair /\ <<"read", TRUE>> \in Range(hist.sOps)) => Len(sbuf) <= BufCap

C10_Witness ==
    /\ JsonPartial
    /\ Len(data) > BufCap /\ Len(sbuf) = BufCap
    /\ spc = "panic"

----------------------------------------------------------------------------
(* The echo server's state machine, section 4.4 of the specification.      *)

Successes(h, op) == Cardinality({i \in 1..Len(h) : h[i] = <<op, TRUE>>})

\* The state of the echo server: Listening until Accept has returned, then
\* Connected until the first line has been read, then Echoing, and Closed
\* when main has ended.
EchoState ==
    CASE spc \in {"listen", "accept"} -> "Listening"
      [] spc \in {"read", "echo"} /\ Successes(hist.sOps, "readline") = 0 -> "Connected"
      [] spc \in {"read", "echo"} /\ Successes(hist.sOps, "readline") > 0 -> "Echoing"
      [] spc \in {"done", "panic"} -> "Closed"

\* this step takes the server from one state to another, and is the call
\* op returning ok
Transition(from, to, op, ok) ==
    /\ EchoState = from /\ EchoState' = to
    /\ hist'.sOps = Append(hist.sOps, <<op, ok>>)

\* this step changes nothing of the state machine: the state stays, and no
\* accept and no line read has returned
NoTransition ==
    /\ EchoState' = EchoState
    /\ \/ hist'.sOps = hist.sOps
       \/ /\ Len(hist'.sOps) = Len(hist.sOps) + 1
          /\ Last(hist'.sOps)[1] \in {"listen", "write"}
          /\ Last(hist'.sOps)[1] = "listen" => Last(hist'.sOps)[2]

\* the four transitions of the specification
SpecTransitions ==
    \/ Transition("Listening", "Connected", "accept", TRUE)
    \/ Transition("Connected", "Echoing", "readline", TRUE)
    \/ Transition("Echoing", "Echoing", "readline", TRUE)
    \/ Transition("Echoing", "Closed", "readline", FALSE)

(* C11  Echo server state machine.  As claimed: every step of the echo     *)
(* server is Listening to Connected on accept, Connected to Echoing on the *)
(* first successful line read, Echoing to Echoing on each later successful *)
(* line read, or Echoing to Closed on read failure or EOF, and no other    *)
(* transition occurs.  The machine is taken to start once the listener is  *)
(* bound, so a failure of net.Listen is not held against the claim.        *)

C11_Original ==
    [][EchoServer /\ spc # "listen" => SpecTransitions \/ NoTransition]_vars

(* C11, amended: the states are Listening, Connected, Echoing and Closed,  *)
(* and every step is one of the four transitions claimed or one of two     *)
(* more: Connected to Closed on read failure or EOF before any line has    *)
(* been read, and Listening to Closed when listen or accept fails and main *)
(* panics.  No other transition occurs; a write, failed or not, is none.   *)

C11_EchoStateMachine ==
    [][EchoServer =>
          \/ SpecTransitions
          \/ Transition("Connected", "Closed", "readline", FALSE)
          \/ Transition("Listening", "Closed", "listen", FALSE)
          \/ Transition("Listening", "Closed", "accept", FALSE)
          \/ NoTransition]_vars

C11_Witness ==
    /\ EchoServer /\ EchoState = "Closed" /\ spc = "done"
    /\ Successes(hist.sOps, "accept") = 1
    /\ Successes(hist.sOps, "readline") = 0

(* C12  JSON server single read.  In every run the JSON server reads the   *)
(* accepted connection at most once, into a buffer of 1024 bytes, and what *)
(* it decodes is exactly the n bytes that read returned: the first n bytes *)
(* the peer sent, whatever arrived later staying unread, and the outcome   *)
(* of the decoding (the panic, or the message printed) being that of those *)
(* n bytes alone.                                                          *)

C12_SingleRead ==
    JsonServer =>
        /\ Count(hist.sOps, "read") <= 1
        /\ Len(sbuf) <= BufCap
        /\ IF Successes(hist.sOps, "read") = 1
           THEN sbuf # <<>> /\ sbuf \o c2s = hist.cSent
           ELSE sbuf = <<>> /\ Count(hist.sOps, "decode") = 0
        /\ Count(hist.sOps, "decode") <= 1
        /\ Failed(hist.sOps, "decode") => Unmarshal(sbuf).err /\ NoJsonPrinted
        /\ Successes(hist.sOps, "decode") = 1 =>
              /\ ~Unmarshal(sbuf).err
              /\ JsonPrinted(Unmarshal(sbuf).msg)
              /\ Cardinality({i \in 1..Len(sOut) :
                                 sOut[i][1] = "Received JSON: "}) = 1
        /\ Count(hist.sOps, "decode") = 0 => NoJsonPrinted

C12_Witness ==
    /\ JsonServer /\ cKind = "raw" /\ spc = "done"
    /\ sbuf = <<"{", "}">> /\ c2s # <<>>
    /\ JsonPrinted(ZeroMessage)

----------------------------------------------------------------------------
(* Blocking calls, section 5 of the specification.                         *)

\* this step is the client's call op returning ok
ClientReturns(op, ok) == hist'.cOps = Append(hist.cOps, <<op, ok>>)

\* this step is the server's call op returning ok
ServerReturns(op, ok) == hist'.sOps = Append(hist.sOps, <<op, ok>>)

\* the read end of a connection has nothing more to give: the connection
\* has failed, or the peer has closed and everything it sent has been taken
ReadFails(inflight, peerGone) == broken \/ (inflight = <<>> /\ peerGone)

\* the echo client waits in ReadString, and the peer is there, has sent
\* no newline and the connection has not failed
EchoClientWaiting ==
    /\ EchoClient /\ cpc = "read"
    /\ ~HasNewline(hist.sSent) /\ ~ServerGone /\ ~broken

\* the server waits in Accept and no client has connected
ServerListening == sKind = "prog" /\ spc = "accept" /\ ~backlog

(* C13  Blocking without timeout.  A program blocked in accept or in a     *)
(* read leaves that position only in the step in which the call returns,   *)
(* with success when a connection, a line or bytes have arrived, or with   *)
(* an error.  An echo client that has sent its line and waits in           *)
(* ReadString stays there in every step for as long as the peer has sent   *)
(* no newline, has not closed and the connection has not failed; a server  *)
(* in Accept stays there for as long as no client has connected, unless    *)
(* Accept fails.                                                           *)

C13_BlockingWithoutTimeout ==
    [][/\ EchoClient /\ cpc = "read" /\ cpc' # "read" =>
             \/ /\ ClientReturns("readline", TRUE)
                /\ HasNewline(cbuf) /\ HasNewline(hist.sSent)
             \/ /\ ClientReturns("readline", FALSE)
                /\ ReadFails(s2c, ServerGone)
       /\ EchoClientWaiting => cpc' = "read"
       /\ sKind = "prog" /\ spc = "accept" /\ spc' # "accept" =>
             \/ ServerReturns("accept", TRUE) /\ backlog
             \/ ServerReturns("accept", FALSE)
       /\ ServerListening => spc' = "accept" \/ ServerReturns("accept", FALSE)
       /\ EchoServer /\ spc = "read" /\ spc' # "read" =>
             \/ ServerReturns("readline", TRUE) /\ HasNewline(sbuf)
             \/ ServerReturns("readline", FALSE) /\ ReadFails(c2s, ClientGone)
       /\ JsonServer /\ spc = "read" /\ spc' # "read" =>
             \/ ServerReturns("read", TRUE) /\ c2s # <<>>
             \/ ServerReturns("read", FALSE) /\ ReadFails(c2s, ClientGone)
      ]_vars

\* the echo client is stuck: the peer has sent all it will, without a
\* newline, and keeps the connection open
C13_Witness ==
    /\ EchoClientWaiting /\ sKind = "raw" /\ sconn = "open"
    /\ Len(hist.sSent) = MaxRawBytes /\ cbuf = hist.sSent
    /\ <<"write", TRUE>> \in Range(hist.cOps)

----------------------------------------------------------------------------
(* What the echo server has written back, section 4.4.                     *)

\* the first k complete lines of s, all of them if there are fewer
FirstLines(s, k) ==
    IF k = 0 THEN <<>>
    ELSE IF k >= Cardinality(Newlines(s)) THEN CompleteLines(s)
    ELSE SubSeq(s, 1, CHOOSE j \in Newlines(s) :
                         Cardinality({i \in Newlines(s) : i <= j}) = k)

\* the lines the echo server has read, as it printed them, one after another
RECURSIVE LinesRead(_)
LinesRead(out) ==
    IF out = <<>> THEN <<>>
    ELSE LET rest == LinesRead(SubSeq(out, 1, Len(out) - 1))
         IN  IF Last(out)[1] = "Received: " THEN rest \o Last(out)[2] ELSE rest

\* the server's reads and writes take turns: a line read is followed by
\* the write of that line before anything else, and only a line read is
LoopAlternates ==
    \A i \in 1..Len(hist.sOps) :
        /\ hist.sOps[i] = <<"readline", TRUE>> /\ i < Len(hist.sOps) =>
              hist.sOps[i + 1][1] = "write"
        /\ hist.sOps[i][1] = "write" =>
              i > 1 /\ hist.sOps[i - 1] = <<"readline", TRUE>>

(* C14  Echo prefix invariant.  As claimed: in every reachable state the   *)
(* bytes the echo server has written back are the first k complete lines   *)
(* received, in arrival order, k being the number of lines read so far or  *)
(* one less, and line k+1 is not read before the write of line k has been  *)
(* attempted.                                                              *)

C14_Original ==
    EchoServer =>
        /\ \E k \in {Successes(hist.sOps, "readline"),
                     Successes(hist.sOps, "readline") - 1} :
              /\ k >= 0 /\ k <= Cardinality(Newlines(hist.cSent))
              /\ hist.sSent = FirstLines(hist.cSent, k)
        /\ LoopAlternates

(* C14, amended: in every reachable state the bytes the echo server has    *)
(* passed to conn.Write are the first k complete lines received, in        *)
(* arrival order, k being the number of lines read so far or one less (one *)
(* less exactly while the line just read awaits its write).  The lines     *)
(* read are the first lines received, and while the loop runs on a sound   *)
(* connection nothing is lost between the connection and the reader.  Line *)
(* k+1 is not read before the write of line k has been attempted.  The     *)
(* bytes written back are a prefix of the bytes passed to conn.Write, and  *)
(* all of them as long as no write has failed.                             *)

C14_EchoPrefix ==
    EchoServer =>
        LET r == Successes(hist.sOps, "readline")
            w == Count(hist.sOps, "write")
        IN  /\ w = (IF spc = "echo" THEN r - 1 ELSE r)
            /\ r <= Cardinality(Newlines(hist.cSent))
            /\ LinesRead(sOut) = FirstLines(hist.cSent, r)
            /\ IsPrefix(LinesRead(sOut) \o sbuf, hist.cSent)
            /\ ~broken /\ spc \in {"read", "echo"} =>
                  LinesRead(sOut) \o sbuf \o c2s = hist.cSent
            /\ spc = "echo" =>
                  FirstLines(hist.cSent, w) \o smsg = FirstLines(hist.cSent, r)
            /\ IsPrefix(hist.sSent, FirstLines(hist.cSent, w))
            /\ ~Failed(hist.sOps, "write") =>
                  hist.sSent = FirstLines(hist.cSent, w)
            /\ LoopAlternates

C14_Witness ==
    /\ EchoServer /\ spc = "echo" /\ ~broken
    /\ Successes(hist.sOps, "readline") = 2
    /\ Count(hist.sOps, "write") = 1
    /\ hist.sSent = FirstLines(hist.cSent, 1)
    /\ smsg # hist.sSent

----------------------------------------------------------------------------
(* The end of an echo session, sections 4.3 to 5.                          *)

\* the client has printed the echoed line and closed its connection, the
\* server has met the end of the stream, left the loop and closed the
\* connection and the listening socket, and both have returned from main
EchoSessionDone ==
    /\ EchoPair
    /\ cpc = "done" /\ cconn = "closed" /\ cDefers = <<>>
    /\ cOut = << <<"Received: ", FirstLines(msg, 1)>> >>
    /\ spc = "done" /\ sconn = "closed" /\ ln = "closed" /\ sDefers = <<>>
    /\ Last(hist.sOps) = <<"readline", FALSE>>
    /\ OneLine(msg) => ~broken /\ c2s = <<>> /\ s2c = <<>>

(* C15  End-to-end echo session termination.  When the echo client has     *)
(* connected to the echo server over a reliable connection and both are    *)
(* scheduled fairly, the two never come to a stop before the end of the    *)
(* session, and the end is reached: the client has printed the echoed line *)
(* and closed its connection, the server has met the end of the stream,    *)
(* left its loop and closed the connection and the listening socket, and   *)
(* both have terminated.                                                   *)

C15_EchoSessionTerminates ==
    /\ [](EchoPair /\ ~ENABLED EchoNext => EchoSessionDone)
    /\ (EchoPair /\ Successes(hist.cOps, "dial") = 1) ~> EchoSessionDone

C15_Witness ==
    /\ EchoSessionDone
    /\ msg = HelloLocalServer \o <<Newline>>
    /\ hist.sSent = msg /\ resp = msg

====
